---- MODULE Spec2Model ----
(***************************************************************************)
(* Model of make_tarball.py: one run of main(), as a sequential state      *)
(* machine.  The file system, the HTTP endpoints and the object store are  *)
(* the environment: what they answer is drawn from small sets at the step  *)
(* that asks them.                                                         *)
(***************************************************************************)
EXTENDS Integers, Sequences, FiniteSets, TLC

VARIABLES
    pc,              \* position of main()
    args,            \* parsed command line
    extensions,      \* main: list returned by get_extension_list
    ext_index,       \* download_extensions: descriptors already handled by the for loop
    tempDir,         \* the TemporaryDirectory of main exists
    code_server_dir, \* tempDir/code-server
    extensions_dir,  \* tempDir/extension_packages
    release_info,    \* download_code_server: r.json()["assets"]
    asset_id,        \* download_code_server local
    asset_name,      \* download_code_server local
    copied_from,     \* download_code_server: directory name handed to shutil.copytree
    requests,        \* every requests.get so far: its URL and the status it returned
    output_name,     \* main local
    destination,     \* the archive file at os.path.join(args.destination, output_name)
    uploads,         \* every s3_client.upload_file so far: its arguments and whether it returned
    error,           \* the uncaught exception that ended the run, "" if none
    stages,          \* the stages the run went through, in order
    pristine,        \* the editor tree as extracted, before any customization
    applied          \* number of customize_code_server calls that returned

vars == <<pc, args, extensions, ext_index, tempDir, code_server_dir, extensions_dir,
          release_info, asset_id, asset_name, copied_from, requests, output_name,
          destination, uploads, error, stages, pristine, applied>>

----------------------------------------------------------------------------
(* Bounds of the model *)

MaxExtensions == 2
MaxAssets == 2
MaxMembers == 2
MaxApplications == 2

----------------------------------------------------------------------------
(* Module constants of make_tarball.py *)

EXTENSION_DOWNLOAD_URL(publisher, extension_name, extension_version) ==
    "https://" \o publisher \o ".gallery.vsassets.io/_apis/public/gallery/publisher/"
    \o publisher \o "/extension/" \o extension_name \o "/" \o extension_version
    \o "/assetbyname/Microsoft.VisualStudio.Services.VSIXPackage"

CODE_SERVER_RELEASES_URL(release) ==
    "https://api.github.com/repos/cdr/code-server/releases/" \o release

CODE_SERVER_RELEASE_ASSET_URL(id) ==
    "https://api.github.com/repos/cdr/code-server/releases/assets/" \o id

PRODUCT_NAME == "Evergreen - IDE"
PRODUCT_NAME_SHORT == "IDE"

S3_PREFIX == "evergreen/vscode/"

----------------------------------------------------------------------------
(* Inputs *)

Architectures == {"linux-amd64", "linux-arm64", "macos-amd64"}
Buckets == {"None", "evergreen-bucket"}
Dates == {"2021-01-01", "2021-01-02"}
StatusCodes == {200, 204, 404}

\* Extension Descriptors a manifest may list.  The second differs from the first
\* in its version alone; the last two are distinct (publisher, name) pairs that
\* spell the same file name.
Descriptors ==
    { [publisher |-> "ms-python", name |-> "python", version |-> "2021.1.0"],
      [publisher |-> "ms-python", name |-> "python", version |-> "2021.2.0"],
      [publisher |-> "golang", name |-> "go.tools", version |-> "0.1.0"],
      [publisher |-> "golang.go", name |-> "tools", version |-> "0.1.0"] }

\* Assets a release may list; ids are written as they appear in the asset URL.
Assets ==
    { [id |-> "101", name |-> "code-server-3.8.0-linux-amd64.tar.gz"],
      [id |-> "102", name |-> "code-server-3.8.0-linux-arm64.tar.gz"],
      [id |-> "103", name |-> "code-server-3.8.0-linux-amd64-musl.tgz"],
      [id |-> "104", name |-> "code-server_3.8.0_amd64.deb"] }

SeqsUpTo(S, n) == UNION { [1..k -> S] : k \in 0..n }

Manifests == SeqsUpTo(Descriptors, MaxExtensions)
AssetLists == SeqsUpTo(Assets, MaxAssets)

----------------------------------------------------------------------------
(* Files and directories *)

\* A JSON file: absent, not parseable, or an object written as its members in
\* file order (a key may be written twice).
MissingFile == [kind |-> "missing", members |-> <<>>]
MalformedFile == [kind |-> "malformed", members |-> <<>>]
ObjectFile(members) == [kind |-> "object", members |-> members]

ProductKeys == {"nameShort", "nameLong", "commit"}
ManifestKeys == {"short_name", "name", "display"}
Values == {"code-server", "IDE"}

ObjectFiles(keys, n) == { ObjectFile(m) : m \in SeqsUpTo(keys \X Values, n) }

NoTree == [exists |-> FALSE, product |-> MissingFile, manifest |-> MissingFile, media |-> {}]
NoExtensionsDir == [exists |-> FALSE, files |-> {}]
NoArchive == [name |-> "", state |-> "none"]

\* Editor trees a release tarball may hold, for the pipeline.
SampleTrees ==
    { [exists |-> TRUE, product |-> p, manifest |-> m, media |-> {"favicon.ico"}] :
        p \in { MissingFile, MalformedFile,
                ObjectFile(<< <<"nameShort", "code-server">>, <<"commit", "code-server">> >>) },
        m \in { MissingFile,
                ObjectFile(<< <<"name", "code-server">>, <<"display", "IDE">> >>) } }

\* The icons directory of the working directory: absent, or its file names.
IconDirs == { [exists |-> FALSE, files |-> {}],
              [exists |-> TRUE, files |-> {"favicon.ico", "pwa-icon.png"}] }

----------------------------------------------------------------------------
(* json.load / json.dump and dict assignment *)

\* d[k] = v on a dict kept in insertion order
DictSet(d, k, v) ==
    IF \E i \in 1..Len(d) : d[i][1] = k
    THEN [i \in 1..Len(d) |-> IF d[i][1] = k THEN <<k, v>> ELSE d[i]]
    ELSE Append(d, <<k, v>>)

RECURSIVE json_load(_)
json_load(members) ==
    IF members = <<>> THEN <<>>
    ELSE LET n == Len(members)
         IN DictSet(json_load(SubSeq(members, 1, n - 1)), members[n][1], members[n][2])

json_dump(d) == ObjectFile(d)

\* a rewrite that stores the two name fields alone
RenameDropping(file, short_key, long_key) ==
    json_dump(<< <<short_key, PRODUCT_NAME_SHORT>>, <<long_key, PRODUCT_NAME>> >>)

\* load, set the two name fields, dump (lines 71-76 and 79-84)
Rename(file, short_key, long_key) ==
    json_dump(DictSet(DictSet(json_load(file.members), short_key, PRODUCT_NAME_SHORT),
                      long_key, PRODUCT_NAME))

OpenError(file) ==
    IF file.kind = "missing" THEN "FileNotFoundError"
    ELSE IF file.kind = "malformed" THEN "JSONDecodeError"
    ELSE ""

\* customize_code_server(base_dir): the tree it leaves and the exception it raises
customize_code_server(tree, icons) ==
    IF ~icons.exists
    THEN [error |-> "FileNotFoundError: icons", tree |-> tree]
    ELSE LET t1 == [tree EXCEPT !.media = @ \cup icons.files]
         IN IF OpenError(t1.product) # ""
            THEN [error |-> OpenError(t1.product) \o ": product.json", tree |-> t1]
            ELSE LET t2 == [t1 EXCEPT !.product = Rename(@, "nameShort", "nameLong")]
                 IN IF OpenError(t2.manifest) # ""
                    THEN [error |-> OpenError(t2.manifest) \o ": manifest.json", tree |-> t2]
                    ELSE [error |-> "",
                          tree |-> [t2 EXCEPT !.manifest = Rename(@, "short_name", "name")]]

----------------------------------------------------------------------------
(* download_code_server helpers *)

\* requests.get(url) and the status_code of its response
Get(url, status) == [url |-> url, status |-> status]

\* architecture in asset["name"]
Contains(s, sub) ==
    \E i \in 1..(Len(s) - Len(sub) + 1) : SubSeq(s, i, i + Len(sub) - 1) = sub

\* asset_name[:-7]
StripSuffix(name) == IF Len(name) <= 7 THEN "" ELSE SubSeq(name, 1, Len(name) - 7)

\* a loop that stops at the first matching asset
RECURSIVE SelectAssetFirst(_, _)
SelectAssetFirst(assets, architecture) ==
    IF assets = <<>> THEN [id |-> "", name |-> ""]
    ELSE IF Contains(assets[1].name, architecture)
         THEN [id |-> assets[1].id, name |-> assets[1].name]
         ELSE SelectAssetFirst(Tail(assets), architecture)

\* a loop that falls back to the first asset of the release when none matches
SelectAssetDefaulting(assets, architecture) ==
    LET RECURSIVE Scan(_)
        Scan(n) == IF n = 0 THEN [id |-> "", name |-> ""]
                   ELSE IF Contains(assets[n].name, architecture)
                        THEN [id |-> assets[n].id, name |-> assets[n].name]
                        ELSE Scan(n - 1)
    IN IF Scan(Len(assets)).id = "" /\ assets # <<>>
       THEN [id |-> assets[1].id, name |-> assets[1].name]
       ELSE Scan(Len(assets))

\* the for loop of lines 49-52: every matching asset overwrites the two locals
RECURSIVE SelectAsset(_, _)
SelectAsset(assets, architecture) ==
    IF assets = <<>> THEN [id |-> "", name |-> ""]
    ELSE LET n == Len(assets)
         IN IF Contains(assets[n].name, architecture)
            THEN [id |-> assets[n].id, name |-> assets[n].name]
            ELSE SelectAsset(SubSeq(assets, 1, n - 1), architecture)

----------------------------------------------------------------------------
(* download_extensions helpers *)

\* a file name that tells versions apart
ExtensionFileVersioned(extension) ==
    extension.publisher \o "." \o extension.name \o "-" \o extension.version \o ".vsix"

ExtensionFile(extension) == extension.publisher \o "." \o extension.name \o ".vsix"

\* a status check that lets client errors through
RequestFailedServerOnly(status) == status >= 500

\* r.status_code != 200
RequestFailed(status) == status # 200

----------------------------------------------------------------------------
(* main helpers *)

OutputName(date, architecture) == date \o "_" \o architecture \o "_code-server.tgz"

\* an object key that leaves the prefix out
ObjectNameBare(name) == name

ObjectName(name) == S3_PREFIX \o name

----------------------------------------------------------------------------
(* The run *)

\* args.s3_bucket is not None
UploadRequested(a) == a.s3_bucket # "None"

\* The state before main() runs, for a given command line.
Fresh(a) ==
    /\ args = a
    /\ extensions = <<>>
    /\ ext_index = 0
    /\ tempDir = FALSE
    /\ code_server_dir = NoTree
    /\ extensions_dir = NoExtensionsDir
    /\ release_info = <<>>
    /\ asset_id = ""
    /\ asset_name = ""
    /\ copied_from = ""
    /\ requests = <<>>
    /\ output_name = ""
    /\ destination = NoArchive
    /\ uploads = <<>>
    /\ error = ""
    /\ stages = <<"START">>
    /\ pristine = NoTree
    /\ applied = 0

Init ==
    /\ pc = "get_extension_list"
    /\ \E a \in [release : {"latest"}, architecture : Architectures, s3_bucket : Buckets] :
          Fresh(a)

\* an exception that leaves the temporary directory behind
RaiseLeaking(msg) ==
    /\ pc' = "failed"
    /\ error' = msg
    /\ tempDir' = tempDir
    /\ stages' = Append(stages, "FAILED")

\* An exception leaves main(): the with block of line 114, when entered, removes
\* the temporary directory on the way out.
Raise(msg) ==
    /\ pc' = "failed"
    /\ error' = msg
    /\ tempDir' = FALSE
    /\ stages' = Append(stages, "FAILED")

\* line 113, get_extension_list (lines 94-96)
GetExtensionList ==
    /\ pc = "get_extension_list"
    /\ \E file \in {"missing", "malformed", "list"} :
          IF file = "list"
          THEN /\ \E manifest \in Manifests : extensions' = manifest
               /\ pc' = "TemporaryDirectory"
               /\ stages' = Append(stages, "MANIFEST_LOADED")
               /\ UNCHANGED <<error, tempDir>>
          ELSE /\ Raise(IF file = "missing" THEN "FileNotFoundError: extensions"
                        ELSE "JSONDecodeError: extensions")
               /\ UNCHANGED extensions
    /\ UNCHANGED <<args, ext_index, code_server_dir, extensions_dir, release_info, asset_id,
                   asset_name, copied_from, requests, output_name, destination, uploads,
                   pristine, applied>>

\* line 114, entering the with block
EnterTempDir ==
    /\ pc = "TemporaryDirectory"
    /\ tempDir' = TRUE
    /\ pc' = "download_code_server"
    /\ UNCHANGED <<args, extensions, ext_index, code_server_dir, extensions_dir, release_info,
                   asset_id, asset_name, copied_from, requests, output_name, destination,
                   uploads, error, stages, pristine, applied>>

\* download_code_server, lines 42-55: the release lookup and the asset selection
GetReleaseInfo ==
    /\ pc = "download_code_server"
    /\ \E status \in StatusCodes, assets \in AssetLists :
       /\ requests' = Append(requests, Get(CODE_SERVER_RELEASES_URL(args.release), status))
       /\ IF RequestFailed(status)
          THEN /\ Raise("RuntimeError: can't get release info from GitHub")
               /\ UNCHANGED <<release_info, asset_id, asset_name>>
          ELSE LET selected == SelectAsset(assets, args.architecture)
               IN /\ release_info' = assets
                  /\ asset_id' = selected.id
                  /\ asset_name' = selected.name
                  /\ IF selected.id = ""
                     THEN Raise("ValueError: architecture " \o args.architecture
                                \o " not found in release " \o args.release)
                     ELSE /\ pc' = "get_asset"
                          /\ UNCHANGED <<error, tempDir, stages>>
    /\ UNCHANGED <<args, extensions, ext_index, code_server_dir, extensions_dir, copied_from,
                   output_name, destination, uploads, pristine, applied>>

\* The root directories release tarballs have.
TarRoots == {"code-server-3.8.0-linux-amd64", "code-server-3.8.0-linux-arm64",
             "code-server-3.8.0-linux-amd64-musl"}

\* download_code_server, lines 57-64: the asset download, extraction and copytree
GetAsset ==
    /\ pc = "get_asset"
    /\ \E status \in StatusCodes, root \in TarRoots, tree \in SampleTrees :
       /\ requests' = Append(requests, Get(CODE_SERVER_RELEASE_ASSET_URL(asset_id), status))
       /\ IF RequestFailed(status)
          THEN /\ Raise("RuntimeError: can't get asset id " \o asset_id \o " from GitHub")
               /\ UNCHANGED <<copied_from, code_server_dir, pristine>>
          ELSE /\ copied_from' = StripSuffix(asset_name)
               /\ IF root # StripSuffix(asset_name)
                  THEN /\ Raise("FileNotFoundError: " \o StripSuffix(asset_name))
                       /\ UNCHANGED <<code_server_dir, pristine>>
                  ELSE /\ code_server_dir' = tree
                       /\ pristine' = tree
                       /\ pc' = "download_code_server_return"
                       /\ UNCHANGED <<error, tempDir, stages>>
    /\ UNCHANGED <<args, extensions, ext_index, extensions_dir, release_info, asset_id,
                   asset_name, output_name, destination, uploads, applied>>

\* download_code_server returns to line 118: its locals are gone
CodeServerDownloaded ==
    /\ pc = "download_code_server_return"
    /\ release_info' = <<>>
    /\ asset_id' = ""
    /\ asset_name' = ""
    /\ copied_from' = ""
    /\ pc' = "customize_code_server"
    /\ stages' = Append(stages, "EDITOR_FETCHED")
    /\ UNCHANGED <<args, extensions, ext_index, tempDir, code_server_dir, extensions_dir,
                   requests, output_name, destination, uploads, error, pristine, applied>>

\* line 118, customize_code_server (lines 66-84)
CustomizeCodeServer ==
    /\ pc = "customize_code_server"
    /\ \E icons \in IconDirs :
          LET r == customize_code_server(code_server_dir, icons)
          IN IF r.error # ""
             THEN /\ Raise(r.error)
                  /\ code_server_dir' = NoTree
                  /\ UNCHANGED applied
             ELSE /\ code_server_dir' = r.tree
                  /\ applied' = applied + 1
                  /\ pc' = "download_extensions"
                  /\ stages' = Append(stages, "CUSTOMIZED")
                  /\ UNCHANGED <<error, tempDir>>
    /\ UNCHANGED <<args, extensions, ext_index, extensions_dir, release_info, asset_id,
                   asset_name, copied_from, requests, output_name, destination, uploads,
                   pristine>>

\* download_extensions, line 26: Path(destination_dir).mkdir
MakeExtensionsDir ==
    /\ pc = "download_extensions"
    /\ extensions_dir' = [exists |-> TRUE, files |-> {}]
    /\ ext_index' = 0
    /\ pc' = "for_extension"
    /\ UNCHANGED <<args, extensions, tempDir, code_server_dir, release_info, asset_id,
                   asset_name, copied_from, requests, output_name, destination, uploads,
                   error, stages, pristine, applied>>

\* a loop pass that skips a descriptor whose download failed and goes on
DownloadExtensionSkipping ==
    /\ pc = "for_extension"
    /\ ext_index < Len(extensions)
    /\ LET extension == extensions[ext_index + 1]
           url == EXTENSION_DOWNLOAD_URL(extension.publisher, extension.name,
                                         extension.version)
       IN \E status \in StatusCodes :
             /\ requests' = Append(requests, Get(url, status))
             /\ extensions_dir' =
                    IF RequestFailed(status) THEN extensions_dir
                    ELSE [extensions_dir EXCEPT !.files = @ \cup {ExtensionFile(extension)}]
             /\ ext_index' = ext_index + 1
    /\ UNCHANGED <<pc, error, tempDir, stages, code_server_dir, args, extensions,
                   release_info, asset_id, asset_name, copied_from, output_name,
                   destination, uploads, pristine, applied>>

\* download_extensions, lines 27-36: one pass of the for loop
DownloadExtension ==
    /\ pc = "for_extension"
    /\ ext_index < Len(extensions)
    /\ LET extension == extensions[ext_index + 1]
           url == EXTENSION_DOWNLOAD_URL(extension.publisher, extension.name,
                                         extension.version)
       IN \E status \in StatusCodes :
             /\ requests' = Append(requests, Get(url, status))
             /\ IF RequestFailed(status)
                THEN /\ Raise("RuntimeError: can't get extension " \o extension.name)
                     /\ extensions_dir' = NoExtensionsDir
                     /\ code_server_dir' = NoTree
                     /\ UNCHANGED ext_index
                ELSE /\ extensions_dir' =
                            [extensions_dir EXCEPT !.files = @ \cup {ExtensionFile(extension)}]
                     /\ ext_index' = ext_index + 1
                     /\ UNCHANGED <<pc, error, tempDir, stages, code_server_dir>>
    /\ UNCHANGED <<args, extensions, release_info, asset_id, asset_name, copied_from,
                   output_name, destination, uploads, pristine, applied>>

\* download_extensions returns: the for loop has run out of descriptors
ExtensionsDownloaded ==
    /\ pc = "for_extension"
    /\ ext_index = Len(extensions)
    /\ pc' = "make_tarball"
    /\ stages' = Append(stages, "EXTENSIONS_FETCHED")
    /\ UNCHANGED <<args, extensions, ext_index, tempDir, code_server_dir, extensions_dir,
                   release_info, asset_id, asset_name, copied_from, requests, output_name,
                   destination, uploads, error, pristine, applied>>

\* What make_tarball leaves at output_path (lines 88-92).  tarfile.open creates the
\* file, so a tar.add that raises leaves the members written before it.
Tarball(name, dest_ok, user_ok, service_ok) ==
    IF ~dest_ok THEN [error |-> "FileNotFoundError: destination", file |-> NoArchive]
    ELSE IF ~user_ok
    THEN [error |-> "FileNotFoundError: User", file |-> [name |-> name, state |-> "partial"]]
    ELSE IF ~service_ok
    THEN [error |-> "FileNotFoundError: service", file |-> [name |-> name, state |-> "partial"]]
    ELSE [error |-> "", file |-> [name |-> name, state |-> "complete"]]

\* lines 120-121, make_tarball (lines 86-92)
MakeTarball ==
    /\ pc = "make_tarball"
    /\ \E date \in Dates, dest_ok \in BOOLEAN, user_ok \in BOOLEAN, service_ok \in BOOLEAN :
          LET name == OutputName(date, args.architecture)
              r == Tarball(name, dest_ok, user_ok, service_ok)
          IN /\ output_name' = name
             /\ destination' = r.file
             /\ IF r.error # ""
                THEN /\ Raise(r.error)
                     /\ extensions_dir' = NoExtensionsDir
                     /\ code_server_dir' = NoTree
                ELSE /\ pc' = "exit_TemporaryDirectory"
                     /\ stages' = Append(stages, "ARCHIVED")
                     /\ UNCHANGED <<error, tempDir, extensions_dir, code_server_dir>>
    /\ UNCHANGED <<args, extensions, ext_index, release_info, asset_id, asset_name,
                   copied_from, requests, uploads, pristine, applied>>

\* an upload that does not look at args.s3_bucket
AlwaysUpload(a) == "upload_to_s3"

\* Where main goes once the with block is left (line 123).
AfterArchive(a) == IF UploadRequested(a) THEN "upload_to_s3" ELSE "done"

\* leaving the with block of line 114, then the test of line 123
ExitTempDir ==
    /\ pc = "exit_TemporaryDirectory"
    /\ tempDir' = FALSE
    /\ extensions_dir' = NoExtensionsDir
    /\ code_server_dir' = NoTree
    /\ pc' = AfterArchive(args)
    /\ stages' = IF AfterArchive(args) = "done" THEN Append(stages, "DONE") ELSE stages
    /\ UNCHANGED <<args, extensions, ext_index, release_info, asset_id, asset_name,
                   copied_from, requests, output_name, destination, uploads, error,
                   pristine, applied>>

\* The call of line 124.
UploadCall(a, name) ==
    [bucket |-> a.s3_bucket, tarball_path |-> name, object_name |-> ObjectName(name)]

\* line 124, upload_to_s3 (lines 98-101)
UploadToS3 ==
    /\ pc = "upload_to_s3"
    /\ \E ok \in BOOLEAN :
       /\ uploads' = Append(uploads, [call |-> UploadCall(args, output_name), ok |-> ok])
       /\ IF ok
          THEN /\ pc' = "done"
               /\ stages' = stages \o <<"PUBLISHED", "DONE">>
               /\ UNCHANGED <<error, tempDir>>
          ELSE Raise("S3UploadFailedError")
    /\ UNCHANGED <<args, extensions, ext_index, code_server_dir, extensions_dir, release_info,
                   asset_id, asset_name, copied_from, requests, output_name, destination,
                   pristine, applied>>

Next ==
    \/ GetExtensionList
    \/ EnterTempDir
    \/ GetReleaseInfo
    \/ GetAsset
    \/ CodeServerDownloaded
    \/ CustomizeCodeServer
    \/ MakeExtensionsDir
    \/ DownloadExtension
    \/ ExtensionsDownloaded
    \/ MakeTarball
    \/ ExitTempDir
    \/ UploadToS3

Spec == Init /\ [][Next]_vars

----------------------------------------------------------------------------
(* customize_code_server on its own: called again and again on one tree *)

\* Editor trees with every product.json and manifest.json of up to MaxMembers members.
CustomizeTrees ==
    { [exists |-> TRUE, product |-> p, manifest |-> m, media |-> {"favicon.ico"}] :
        p \in ObjectFiles(ProductKeys, MaxMembers) \cup {MissingFile, MalformedFile},
        m \in ObjectFiles(ManifestKeys, MaxMembers) \cup {MissingFile, MalformedFile} }

\* main() at line 118, download_code_server having returned with some tree.
InitCustomize ==
    /\ pc = "customize_code_server"
    /\ args = [release |-> "latest", architecture |-> "linux-amd64", s3_bucket |-> "None"]
    /\ extensions = <<>>
    /\ ext_index = 0
    /\ tempDir = TRUE
    /\ \E tree \in CustomizeTrees : code_server_dir = tree /\ pristine = tree
    /\ extensions_dir = NoExtensionsDir
    /\ release_info = <<>>
    /\ asset_id = ""
    /\ asset_name = ""
    /\ copied_from = ""
    /\ requests = << Get(CODE_SERVER_RELEASES_URL("latest"), 200),
                     Get(CODE_SERVER_RELEASE_ASSET_URL("101"), 200) >>
    /\ output_name = ""
    /\ destination = NoArchive
    /\ uploads = <<>>
    /\ error = ""
    /\ stages = <<"START", "MANIFEST_LOADED", "EDITOR_FETCHED">>
    /\ applied = 0

\* customize_code_server(code_server_dir) (lines 66-84), main staying at line 118
Recustomize ==
    /\ pc = "customize_code_server"
    /\ applied < MaxApplications
    /\ \E icons \in IconDirs :
          LET r == customize_code_server(code_server_dir, icons)
          IN IF r.error # ""
             THEN /\ Raise(r.error)
                  /\ code_server_dir' = NoTree
                  /\ UNCHANGED applied
             ELSE /\ code_server_dir' = r.tree
                  /\ applied' = applied + 1
                  /\ UNCHANGED <<pc, error, tempDir, stages>>
    /\ UNCHANGED <<args, extensions, ext_index, extensions_dir, release_info, asset_id,
                   asset_name, copied_from, requests, output_name, destination, uploads,
                   pristine>>

NextCustomize == Recustomize

SpecCustomize == InitCustomize /\ [][NextCustomize]_vars

----------------------------------------------------------------------------
(* Vocabulary of the properties *)

Last(seq) == seq[Len(seq)]
StartsWith(s, prefix) == Len(s) >= Len(prefix) /\ SubSeq(s, 1, Len(prefix)) = prefix
Occurs(stage) == \E i \in 1..Len(stages) : stages[i] = stage

DescriptorUrl(d) == EXTENSION_DOWNLOAD_URL(d.publisher, d.name, d.version)
ExtensionUrls == { DescriptorUrl(d) : d \in Descriptors }
IsAssetUrl(url) == StartsWith(url, "https://api.github.com/repos/cdr/code-server/releases/assets/")

Is2xx(status) == status >= 200 /\ status < 300

\* make_tarball was called in this run
TarballStarted == output_name # ""
NoArchiveProduced == destination.state = "none"

Matches(assets, architecture) ==
    { i \in 1..Len(assets) : Contains(assets[i].name, architecture) }

\* the release lookup answered, and download_code_server holds its asset list
ReleaseResolved ==
    /\ Len(requests) >= 1
    /\ requests[1].status = 200
    /\ ~Occurs("EDITOR_FETCHED")

----------------------------------------------------------------------------
(* Properties *)

\* C1: make_tarball starts only once every descriptor of the manifest has been
\* requested, answered and written to the extension directory and the editor
\* tree has been extracted; a run ended by a failed fetch never calls
\* make_tarball and leaves no archive.
C1_ArchiveOnlyAfterAllFetched ==
    /\ (pc = "make_tarball" \/ TarballStarted) =>
          /\ ext_index = Len(extensions)
          /\ \A i \in 1..Len(extensions) :
                \E j \in 1..Len(requests) :
                   /\ requests[j].url = DescriptorUrl(extensions[i])
                   /\ requests[j].status = 200
          /\ Occurs("EDITOR_FETCHED")
          /\ Occurs("EXTENSIONS_FETCHED")
    /\ pc = "make_tarball" =>
          /\ code_server_dir.exists
          /\ extensions_dir.exists
          /\ \A i \in 1..Len(extensions) : ExtensionFile(extensions[i]) \in extensions_dir.files
    /\ (requests # <<>> /\ Last(requests).status # 200) =>
          /\ pc = "failed"
          /\ ~TarballStarted
          /\ NoArchiveProduced

C1_Witness ==
    /\ pc = "make_tarball"
    /\ Len(extensions) >= 2
    /\ extensions[1] # extensions[2]

\* C5: a non-2xx answer of the marketplace for one descriptor ends the run at
\* that descriptor: it is the last request made, the run has failed with that
\* extension's error, no archive is at the destination and the staging
\* directory is gone.
C5_ExtensionFailureIsFatal ==
    \A j \in 1..Len(requests) :
       (requests[j].url \in ExtensionUrls /\ ~Is2xx(requests[j].status)) =>
          /\ j = Len(requests)
          /\ pc = "failed"
          /\ error = "RuntimeError: can't get extension " \o extensions[ext_index + 1].name
          /\ requests[j].url = DescriptorUrl(extensions[ext_index + 1])
          /\ ~TarballStarted
          /\ NoArchiveProduced
          /\ ~tempDir /\ ~extensions_dir.exists /\ ~code_server_dir.exists

C5_Witness ==
    /\ pc = "failed"
    /\ Len(extensions) >= 2
    /\ ext_index = 0
    /\ Last(requests).url \in ExtensionUrls
    /\ Last(requests).status = 404

\* C6: when no asset of the resolved release has a name containing the
\* architecture token, the run fails with the architecture-not-found error,
\* no asset download has been requested and no archive is produced.
C6_ArchitectureNotFound ==
    (ReleaseResolved /\ Matches(release_info, args.architecture) = {}) =>
       /\ pc = "failed"
       /\ error = "ValueError: architecture " \o args.architecture
                  \o " not found in release " \o args.release
       /\ Len(requests) = 1
       /\ \A j \in 1..Len(requests) : ~IsAssetUrl(requests[j].url)
       /\ ~TarballStarted
       /\ NoArchiveProduced

C6_Witness ==
    /\ ReleaseResolved
    /\ release_info # <<>>
    /\ Matches(release_info, args.architecture) = {}
    /\ pc = "failed"

\* C10: with several matching assets the last one in list order is selected,
\* and the asset download and the directory copied out of the extraction both
\* use that asset.
C10_LastMatchWins ==
    (ReleaseResolved /\ Matches(release_info, args.architecture) # {}) =>
       LET last == CHOOSE i \in Matches(release_info, args.architecture) :
                      \A k \in Matches(release_info, args.architecture) : k <= i
       IN /\ asset_id = release_info[last].id
          /\ asset_name = release_info[last].name
          /\ \A j \in 1..Len(requests) :
                IsAssetUrl(requests[j].url) =>
                   requests[j].url = CODE_SERVER_RELEASE_ASSET_URL(release_info[last].id)
          /\ copied_from # "" =>
                copied_from \o SubSeq(release_info[last].name,
                                      Len(release_info[last].name) - 6,
                                      Len(release_info[last].name))
                   = release_info[last].name

C10_Witness ==
    /\ Cardinality(Matches(release_info, args.architecture)) >= 2
    /\ release_info[1].id # release_info[2].id
    /\ pc = "download_code_server_return"
    /\ code_server_dir.exists

\* C2, as the specification states it: a run that failed in one of the four error classes (HTTP,
\* architecture, file system, parse) has left no archive file, complete or
\* partial, at the destination path.
C2_NoArtifactOnFailure ==
    (pc = "failed" /\ error # "S3UploadFailedError") => NoArchiveProduced

\* C3, as the specification states it: at archive time the extension directory holds exactly as
\* many files as the manifest has descriptors.
C3_OneFilePerDescriptor ==
    pc = "make_tarball" => Cardinality(extensions_dir.files) = Len(extensions)

\* C3, amended: at archive time the extension directory holds exactly the
\* files <publisher>.<name>.vsix of the manifest's descriptors, one per distinct
\* file name; they are as many as the descriptors when no two descriptors
\* spell the same file name.
C3_OneFilePerFileName ==
    pc = "make_tarball" =>
       LET names == { extensions[i].publisher \o "." \o extensions[i].name \o ".vsix" :
                         i \in 1..Len(extensions) }
           distinct == \A i, k \in 1..Len(extensions) :
                          i # k => extensions[i].publisher \o "." \o extensions[i].name
                                   # extensions[k].publisher \o "." \o extensions[k].name
       IN /\ extensions_dir.files = names
          /\ distinct => Cardinality(extensions_dir.files) = Len(extensions)
          /\ ~distinct => Cardinality(extensions_dir.files) < Len(extensions)

C3_Witness ==
    /\ pc = "make_tarball"
    /\ Len(extensions) >= 2
    /\ extensions[1].publisher = extensions[2].publisher
    /\ extensions[1].name = extensions[2].name
    /\ extensions[1].version # extensions[2].version

DocumentedOrder ==
    <<"START", "MANIFEST_LOADED", "EXTENSIONS_FETCHED", "EDITOR_FETCHED", "CUSTOMIZED",
      "ARCHIVED", "PUBLISHED", "DONE">>

ExecutedOrder ==
    <<"START", "MANIFEST_LOADED", "EDITOR_FETCHED", "CUSTOMIZED", "EXTENSIONS_FETCHED",
      "ARCHIVED", "PUBLISHED", "DONE">>

IsPrefix(s, t) == Len(s) <= Len(t) /\ \A i \in 1..Len(s) : s[i] = t[i]
Without(seq, x) ==
    LET RECURSIVE Drop(_)
        Drop(n) == IF n = 0 THEN <<>>
                   ELSE IF seq[n] = x THEN Drop(n - 1) ELSE Append(Drop(n - 1), seq[n])
    IN Drop(Len(seq))

\* The run went through the stages of order, in that order, each at most once
\* and none skipped but PUBLISHED (which needs a bucket); FAILED is entered from
\* any stage, is the last stage, and is where a failed run stands.
FollowsOrder(order) ==
    LET failed == Last(stages) = "FAILED"
        body == IF failed THEN SubSeq(stages, 1, Len(stages) - 1) ELSE stages
    IN /\ IsPrefix(body, order) \/ IsPrefix(body, Without(order, "PUBLISHED"))
       /\ Occurs("PUBLISHED") => UploadRequested(args)
       /\ (Occurs("DONE") /\ UploadRequested(args)) => Occurs("PUBLISHED")
       /\ failed <=> pc = "failed"
       /\ Occurs("DONE") <=> pc = "done"
       /\ pc \in {"failed", "done"} => ~ENABLED Next

\* C4, as the specification states it: the stages run in the documented order START,
\* MANIFEST_LOADED, EXTENSIONS_FETCHED, EDITOR_FETCHED, CUSTOMIZED, ARCHIVED,
\* PUBLISHED, DONE.
C4_DocumentedOrder == FollowsOrder(DocumentedOrder)

\* C4, amended: the stages run in the order START, MANIFEST_LOADED,
\* EDITOR_FETCHED, CUSTOMIZED, EXTENSIONS_FETCHED, ARCHIVED, PUBLISHED (when a
\* bucket is configured), DONE, each at most once and none before its
\* predecessor succeeded; a failure moves to FAILED, where the run ends.
C4_ExecutedOrder == FollowsOrder(ExecutedOrder)

C4_Witness ==
    /\ pc = "done"
    /\ stages = ExecutedOrder

\* The positions of main inside the with block of line 114.
InsideWith ==
    {"download_code_server", "get_asset", "download_code_server_return",
     "customize_code_server", "download_extensions",
     "for_extension", "make_tarball", "exit_TemporaryDirectory"}

\* C7, as the specification states it: the staging directory does not exist before the manifest is
\* read, exists through the fetch, customize and archive stages and until
\* stage 5, upload included, is over, and does not exist in a terminal state.
C7_StagingUntilStage5Over ==
    /\ pc \in {"get_extension_list", "TemporaryDirectory"} => ~tempDir
    /\ pc \in InsideWith \cup {"upload_to_s3"} => tempDir
    /\ pc \in {"done", "failed"} => ~tempDir

\* C7, amended: the staging directory does not exist before the manifest is
\* read, exists through the fetch, customize and archive stages, is removed
\* when make_tarball has returned, before the upload starts, and does not exist
\* during the upload nor in a terminal state, whichever way the run ended.
C7_StagingUntilArchived ==
    /\ pc \in {"get_extension_list", "TemporaryDirectory"} => ~tempDir
    /\ pc \in InsideWith => tempDir
    /\ pc \in {"upload_to_s3", "done", "failed"} =>
          ~tempDir /\ ~code_server_dir.exists /\ ~extensions_dir.exists
    /\ (code_server_dir.exists \/ extensions_dir.exists) => tempDir

C7_Witness ==
    /\ pc = "failed"
    /\ Occurs("EXTENSIONS_FETCHED")
    /\ error = "FileNotFoundError: service"
    /\ ~tempDir

\* C8: upload_file is called at most once, only with a bucket configured and a
\* complete archive written, with the key evergreen/vscode/<archive file name>;
\* a run that archived with a bucket configured does call it, an upload error
\* ends the run in FAILED, and without a bucket DONE follows ARCHIVED.
C8_UploadOnceAfterArchive ==
    /\ Len(uploads) <= 1
    /\ uploads # <<>> =>
          /\ args.s3_bucket # "None"
          /\ Occurs("ARCHIVED")
          /\ destination.state = "complete"
          /\ uploads[1].call.bucket = args.s3_bucket
          /\ uploads[1].call.tarball_path = destination.name
          /\ uploads[1].call.object_name = "evergreen/vscode/" \o destination.name
          /\ pc = (IF uploads[1].ok THEN "done" ELSE "failed")
          /\ ~uploads[1].ok => error = "S3UploadFailedError"
    /\ (Occurs("ARCHIVED") /\ args.s3_bucket # "None") =>
          (uploads # <<>> \/ pc \in {"exit_TemporaryDirectory", "upload_to_s3"})
    /\ (Occurs("ARCHIVED") /\ args.s3_bucket = "None") =>
          /\ uploads = <<>>
          /\ pc \in {"exit_TemporaryDirectory", "done"}
          /\ pc = "done" => stages = Without(ExecutedOrder, "PUBLISHED")

C8_Witness ==
    /\ Len(uploads) = 1
    /\ ~uploads[1].ok
    /\ pc = "failed"

\* The value a JSON object file gives key: the one written last, as json.load
\* reads it.
Field(file, key) ==
    LET at == { i \in 1..Len(file.members) : file.members[i][1] = key }
    IN IF at = {} THEN "<absent>"
       ELSE file.members[CHOOSE i \in at : \A k \in at : k <= i][2]

\* C9: after one call of customize_code_server, and after every further call,
\* nameShort and short_name are "IDE", nameLong and name are "Evergreen - IDE",
\* and every other field of product.json and manifest.json has the value it
\* had in the file before the first call; so a second call changes no field.
C9_CustomizeIdempotent ==
    (applied >= 1 /\ pc # "failed") =>
       /\ Field(code_server_dir.product, "nameShort") = "IDE"
       /\ Field(code_server_dir.product, "nameLong") = "Evergreen - IDE"
       /\ Field(code_server_dir.manifest, "short_name") = "IDE"
       /\ Field(code_server_dir.manifest, "name") = "Evergreen - IDE"
       /\ \A k \in ProductKeys \ {"nameShort", "nameLong"} :
             Field(code_server_dir.product, k) = Field(pristine.product, k)
       /\ \A k \in ManifestKeys \ {"short_name", "name"} :
             Field(code_server_dir.manifest, k) = Field(pristine.manifest, k)
       /\ \A i \in 1..Len(code_server_dir.product.members) :
             code_server_dir.product.members[i][1] \in
                {"nameShort", "nameLong"}
                   \cup { pristine.product.members[k][1] :
                             k \in 1..Len(pristine.product.members) }
       /\ \A i \in 1..Len(code_server_dir.manifest.members) :
             code_server_dir.manifest.members[i][1] \in
                {"short_name", "name"}
                   \cup { pristine.manifest.members[k][1] :
                             k \in 1..Len(pristine.manifest.members) }

C9_Witness ==
    /\ applied >= 2
    /\ pc = "customize_code_server"
    /\ Len(pristine.product.members) = 2
    /\ pristine.product.members[1] = <<"commit", "code-server">>
    /\ pristine.product.members[2] = <<"commit", "IDE">>
    /\ Field(pristine.manifest, "name") = "code-server"

====
